---- MODULE Spec2Model ----
(***************************************************************************)
(* A model of the SMTP test server of EST (src/est.py, class               *)
(* SMTPTestServer): the accept loop, one session handler per connection,   *)
(* the relay dispatcher with its candidate-host loop and the exchanger     *)
(* resolver.  Text is modelled as sequences of one-character strings, so   *)
(* that strip, upper, startswith, endswith, the address regex and split    *)
(* are computed as Python computes them.                                   *)
(***************************************************************************)
EXTENDS Naturals, Integers, Sequences, FiniteSets, TLC

(* ------------------------------ bounds -------------------------------- *)
\* Number of peers that may connect.
NumConns == 2
\* Non-empty reads an unscripted peer delivers before it closes.
MaxReads == 6
\* Recipients one envelope may accumulate.
MaxRcpt == 2
\* Non-empty reads delivered during one message body.
MaxBody == 2
\* Exchange records one successful MX lookup returns.
MaxMx == 3
\* Characters of a command line given to _extract_email on its own.
MaxLine == 4
\* Characters of a recipient address given to _relay_email on its own.
MaxAddr == 4
NumScenarios == 3

Conns == 1..NumConns

(* ------------------------------- text --------------------------------- *)
Lower == <<"a", "b", "c", "d", "e", "f", "g", "h", "i", "j", "k", "l", "m", "n", "o", "p", "q", "r", "s", "t", "u", "v", "w", "x", "y", "z">>
UpperCase == <<"A", "B", "C", "D", "E", "F", "G", "H", "I", "J", "K", "L", "M", "N", "O", "P", "Q", "R", "S", "T", "U", "V", "W", "X", "Y", "Z">>

\* A byte that is not valid UTF-8; decode(errors='ignore') drops it.
BadByte == "0xFF"

\* The two bytes of the UTF-8 encoding of one character outside ASCII, and
\* that character.  Each byte is invalid without the other.
LeadByte == "0xC3"
ContByte == "0xA9"
TwoByteChar == "U+00E9"

Whitespace == {" ", "\t", "\r", "\n"}

Min(S) == CHOOSE x \in S : \A y \in S : x <= y
Max(S) == CHOOSE x \in S : \A y \in S : x >= y

\* bytes.decode('utf-8', errors='ignore'): a lead byte followed by its
\* continuation byte gives the character, every other invalid byte is dropped.
Decode(bytes) ==
  LET decoded == [i \in 1..Len(bytes) |->
                    IF bytes[i] = LeadByte /\ i < Len(bytes) /\ bytes[i + 1] = ContByte
                    THEN TwoByteChar
                    ELSE IF bytes[i] \in {LeadByte, ContByte} THEN BadByte
                    ELSE bytes[i]]
  IN SelectSeq(decoded, LAMBDA b : b # BadByte)

\* str.strip()
Strip(t) ==
  LET keep == {i \in 1..Len(t) : t[i] \notin Whitespace}
  IN IF keep = {} THEN <<>> ELSE SubSeq(t, Min(keep), Max(keep))

\* str.strip('<>')
StripBrackets(t) ==
  LET keep == {i \in 1..Len(t) : t[i] \notin {"<", ">"}}
  IN IF keep = {} THEN <<>> ELSE SubSeq(t, Min(keep), Max(keep))

UpperChar(c) ==
  IF \E i \in 1..Len(Lower) : Lower[i] = c
  THEN UpperCase[CHOOSE i \in 1..Len(Lower) : Lower[i] = c]
  ELSE c

\* str.upper()
Upper(t) == [i \in 1..Len(t) |-> UpperChar(t[i])]

\* str.startswith
StartsWith(t, p) == Len(t) >= Len(p) /\ SubSeq(t, 1, Len(p)) = p

\* str.endswith
EndsWith(t, p) == Len(t) >= Len(p) /\ SubSeq(t, Len(t) - Len(p) + 1, Len(t)) = p

\* t[:-n]
DropLast(t, n) == SubSeq(t, 1, Len(t) - n)

\* str.split(): the maximal runs of non-whitespace characters
RECURSIVE SplitWs(_)
SplitWs(t) ==
  IF t = <<>> THEN <<>>
  ELSE IF Head(t) \in Whitespace THEN SplitWs(Tail(t))
  ELSE LET stop == {i \in 1..Len(t) : t[i] \in Whitespace}
           n == IF stop = {} THEN Len(t) ELSE Min(stop) - 1
       IN <<SubSeq(t, 1, n)>> \o SplitWs(SubSeq(t, n + 1, Len(t)))

\* str.split(sep) for a one-character separator
RECURSIVE SplitAt(_, _)
SplitAt(t, sep) ==
  LET at == {i \in 1..Len(t) : t[i] = sep}
  IN IF at = {} THEN <<t>>
     ELSE <<SubSeq(t, 1, Min(at) - 1)>> \o SplitAt(SubSeq(t, Min(at) + 1, Len(t)), sep)

\* re.search(r'<(.+?)>', line): the pairs (i, j) with line[i] = '<', line[j] = '>',
\* at least one character between them and no newline between them ('.' does
\* not match a newline).
BracketSpans(t) ==
  {p \in (1..Len(t)) \X (1..Len(t)) :
     /\ t[p[1]] = "<"
     /\ t[p[2]] = ">"
     /\ p[2] >= p[1] + 2
     /\ \A k \in (p[1] + 1)..(p[2] - 1) : t[k] # "\n"}

\* An extractor that returns the only token of a one-token line
\* (len(parts) > 0).
ExtractEmail_OneToken(smtp_line) ==
  LET spans == BracketSpans(smtp_line)
      parts == SplitWs(smtp_line)
  IN IF spans # {}
     THEN LET i == Min({p[1] : p \in spans})
              j == Min({p[2] : p \in {q \in spans : q[1] = i}})
          IN SubSeq(smtp_line, i + 1, j - 1)
     ELSE IF Len(parts) > 0 THEN StripBrackets(parts[Len(parts)]) ELSE <<>>

\* SMTPTestServer._extract_email
ExtractEmail(smtp_line) ==
  LET spans == BracketSpans(smtp_line)
      parts == SplitWs(smtp_line)
  IN IF spans # {}
     THEN LET i == Min({p[1] : p \in spans})
              j == Min({p[2] : p \in {q \in spans : q[1] = i}})
          IN SubSeq(smtp_line, i + 1, j - 1)
     ELSE IF Len(parts) > 1 THEN StripBrackets(parts[Len(parts)]) ELSE <<>>

(* --------------------------- protocol text ---------------------------- *)
KwEhlo == <<"E", "H", "L", "O">>
KwHelo == <<"H", "E", "L", "O">>
KwMail == <<"M", "A", "I", "L", " ", "F", "R", "O", "M", ":">>
KwRcpt == <<"R", "C", "P", "T", " ", "T", "O", ":">>
KwData == <<"D", "A", "T", "A">>
KwQuit == <<"Q", "U", "I", "T">>
KwRset == <<"R", "S", "E", "T">>
Terminator == <<"\r", "\n", ".", "\r", "\n">>

\* The replies the handler sends.
R220 == "220 EST-SMTP Security Testing Server Ready"
R250Hello == "250-EST-SMTP Hello / 250 HELP"
R250 == "250 OK"
R354 == "354 End data with <CR><LF>.<CR><LF>"
R250Queued == "250 OK Message queued for delivery"
R550 == "550 Message delivery failed"
R221 == "221 EST-SMTP closing connection"
R500 == "500 Command not recognized"

\* The numeric code of a reply.
Code(r) ==
  CASE r = R220 -> 220
    [] r \in {R250Hello, R250, R250Queued} -> 250
    [] r = R354 -> 354
    [] r = R550 -> 550
    [] r = R221 -> 221
    [] r = R500 -> 500

\* The chain with the QUIT branch left out.
Command_NoQuit(cmd) ==
  IF StartsWith(cmd, KwEhlo) \/ StartsWith(cmd, KwHelo) THEN "HELO"
  ELSE IF StartsWith(cmd, KwMail) THEN "MAIL"
  ELSE IF StartsWith(cmd, KwRcpt) THEN "RCPT"
  ELSE IF cmd = KwData THEN "DATA"
  ELSE IF StartsWith(cmd, KwRset) THEN "RSET"
  ELSE "OTHER"

\* The if/elif chain of _handle_client on cmd = data.upper().
Command(cmd) ==
  IF StartsWith(cmd, KwEhlo) \/ StartsWith(cmd, KwHelo) THEN "HELO"
  ELSE IF StartsWith(cmd, KwMail) THEN "MAIL"
  ELSE IF StartsWith(cmd, KwRcpt) THEN "RCPT"
  ELSE IF cmd = KwData THEN "DATA"
  ELSE IF cmd = KwQuit THEN "QUIT"
  ELSE IF StartsWith(cmd, KwRset) THEN "RSET"
  ELSE "OTHER"

(* ------------------------ exchanger resolver -------------------------- *)
Digits == <<"0", "1", "2", "3", "4", "5", "6", "7", "8", "9">>

\* str.rstrip('.')
RStripDot(t) ==
  LET keep == {i \in 1..Len(t) : t[i] # "."}
  IN IF keep = {} THEN <<>> ELSE SubSeq(t, 1, Max(keep))

\* The i-th exchange record a lookup may return: odd records have preference
\* 10, even ones 5, so that answers are unsorted and hold ties.
MxRecord(i) ==
  [preference |-> IF i % 2 = 1 THEN 10 ELSE 5,
   exchange |-> <<"m", "x", Digits[i + 1], ".", "y", ".">>]

\* What the name system answers to one resolution: the MX records of a
\* successful lookup, or a failed lookup (error, no records, no resolver
\* library) together with the fallback guesses that gethostbyname resolves.
DnsAnswers ==
  {[ok |-> TRUE, records |-> [i \in 1..n |-> MxRecord(i)], probes |-> {}] : n \in 1..MaxMx}
  \cup {[ok |-> FALSE, records |-> <<>>, probes |-> P] : P \in SUBSET (1..3)}

\* A sort that is not stable: a record goes before the records of equal
\* preference already placed.
RECURSIVE SortedByPreference_Unstable(_)
SortedByPreference_Unstable(recs) ==
  IF recs = <<>> THEN <<>>
  ELSE LET n == Len(recs)
           init == SortedByPreference_Unstable(SubSeq(recs, 1, n - 1))
           r == recs[n]
           before == {i \in 1..Len(init) : init[i].preference < r.preference}
           k == IF before = {} THEN 0 ELSE Max(before)
       IN SubSeq(init, 1, k) \o <<r>> \o SubSeq(init, k + 1, Len(init))

\* sorted(mx_records, key=lambda x: x.preference): a stable sort
RECURSIVE SortedByPreference(_)
SortedByPreference(recs) ==
  IF recs = <<>> THEN <<>>
  ELSE LET n == Len(recs)
           init == SortedByPreference(SubSeq(recs, 1, n - 1))
           r == recs[n]
           before == {i \in 1..Len(init) : init[i].preference <= r.preference}
           k == IF before = {} THEN 0 ELSE Max(before)
       IN SubSeq(init, 1, k) \o <<r>> \o SubSeq(init, k + 1, Len(init))

\* The fallback host names, in the fixed order mail., mx., mx1.
Fallbacks(domain) ==
  << <<"m", "a", "i", "l", ".">> \o domain,
     <<"m", "x", ".">> \o domain,
     <<"m", "x", "1", ".">> \o domain >>

\* A resolver that returns the fallback names without probing them.
GetMxServers_NoProbe(domain, answer) ==
  IF answer.ok
  THEN LET sorted == SortedByPreference(answer.records)
       IN [i \in 1..Len(sorted) |-> RStripDot(sorted[i].exchange)]
  ELSE Fallbacks(domain)

\* SMTPTestServer._get_mx_servers
GetMxServers(domain, answer) ==
  IF answer.ok
  THEN LET sorted == SortedByPreference(answer.records)
       IN [i \in 1..Len(sorted) |-> RStripDot(sorted[i].exchange)]
  ELSE LET fallbacks == Fallbacks(domain)
           working == {i \in 1..3 : i \in answer.probes}
           F[i \in 0..3] ==
             IF i = 0 THEN <<>>
             ELSE IF i \in working THEN Append(F[i - 1], fallbacks[i]) ELSE F[i - 1]
       IN F[3]

\* What one attempt on a candidate host may do: complete, fail to connect,
\* fail during sendmail, or fail in quit after the message was accepted.
Outcomes == {"ok", "connect_error", "send_error", "quit_error"}

\* The outbound sessions an attempt opens and the code does not close.
\* smtplib.SMTP() that raises has no socket left, quit() closes the socket
\* also when it raises, and sendmail that raises because the host refused
\* the sender, the recipient or the data leaves the session open to its
\* caller, whose except clause (lines 431-433) goes on without closing it.
LeftOpen(o) == IF o = "send_error" THEN 1 ELSE 0

\* The candidate accepted the message: sendmail returned.
Accepted(o) == IF o \in {"ok", "quit_error"} THEN 1 ELSE 0

(* --------------------------- the test command ------------------------ *)
\* self.scenarios[i] on a list of n scenarios, as list indexing does it: an
\* index from 0 counts from the front, a negative one from the end, any
\* other raises IndexError (0 here); the result is the position from 1.
ListIndex(i, n) ==
  IF 0 <= i /\ i < n THEN i + 1
  ELSE IF 0 - n <= i /\ i < 0 THEN n + i + 1
  ELSE 0

\* sys.exit(0 if success else 1)
ExitCode(success) == IF success THEN 0 ELSE 1

\* EST._log_test_result: one line appended, or the failure is logged and
\* swallowed.
LogTestResult(records, result, writable) ==
  IF writable THEN Append(records, result) ELSE records

\* EST.run_scenario(scenario_id, ...) on a list of n scenarios, followed by
\* the exit of the test command: what it returned, the scenario it ran (0
\* for none), the calls of smtplib.SMTP it made, the records it appended and
\* the exit code.
RunScenario(scenario_id, n, outcome, writable) ==
  LET k == ListIndex(scenario_id - 1, n)
      success == outcome = "ok"
  IN IF k = 0
     THEN [ret |-> FALSE, scenario |-> 0, smtp_calls |-> 0, records |-> <<>>,
           exit |-> ExitCode(FALSE)]
     ELSE [ret |-> success, scenario |-> k, smtp_calls |-> 1,
           records |-> LogTestResult(<<>>, [scenario |-> k, success |-> success], writable),
           exit |-> ExitCode(success)]

(* --------------------------- the peers -------------------------------- *)
CmdEhlo == <<"E", "H", "L", "O", " ", "h">>
CmdMail == <<"M", "A", "I", "L", " ", "F", "R", "O", "M", ":", "<", "a", "@", "x", ">">>
CmdRcpt == <<"R", "C", "P", "T", " ", "T", "O", ":", "<", "b", "@", "y", ">">>
CmdRcptBare == <<"r", "c", "p", "t", " ", "t", "o", ":", " ", "c">>
CmdData == <<"D", "A", "T", "A">>
CmdDataLower == <<"d", "a", "t", "a", "\r", "\n">>
CmdDataArg == <<"D", "A", "T", "A", " ", "n", "o", "w">>
CmdQuit == <<"Q", "U", "I", "T">>
CmdQuitArg == <<"Q", "U", "I", "T", " ", "n", "o", "w">>
CmdRset == <<"R", "S", "E", "T">>
CmdNoop == <<"N", "O", "O", "P">>
CmdBlank == <<"\r", "\n">>
CmdTwoLines == <<"M", "A", "I", "L", " ", "F", "R", "O", "M", ":", "<", "a", "@", "x", ">", "\r", "\n", "R", "C", "P", "T", " ", "T", "O", ":", "<", "b", "@", "y", ">">>
ChunkWhole == <<"h", "i", "\r", "\n", ".", "\r", "\n">>
ChunkHead == <<"h", "i", "\r", "\n", ".">>
ChunkTail == <<"\r", "\n">>
ChunkLead == <<"h", LeadByte>>
ChunkCont == <<ContByte, "\r", "\n", ".", "\r", "\n">>

\* What one read of an unscripted peer may hold while the session waits for a
\* command, and while it receives a body.
Commands ==
  {CmdEhlo, CmdMail, CmdRcpt, CmdRcptBare, CmdData, CmdDataLower, CmdDataArg,
   CmdQuit, CmdQuitArg, CmdRset, CmdNoop, CmdBlank, CmdTwoLines}
Chunks == {ChunkWhole, ChunkHead, ChunkTail}

\* The session of section 8: one command or one body per read.
FullScript == <<CmdEhlo, CmdMail, CmdRcpt, CmdData, ChunkWhole, CmdQuit>>
\* One MAIL/RCPT/DATA cycle, after which the peer closes.
CycleScript == <<CmdMail, CmdRcpt, CmdData, ChunkWhole>>
\* An envelope is filled and then reset twice in a row.
RsetScript == <<CmdMail, CmdRcpt, CmdRset, CmdRset>>
\* One cycle whose body arrives in two reads, the boundary between the two
\* bytes of one character.
SplitCharScript == <<CmdMail, CmdRcpt, CmdData, ChunkLead, ChunkCont>>

NoPeer == [mode |-> "none", script |-> <<>>]
FreePeer == [mode |-> "free", script |-> <<>>]
Scripted(script) == [mode |-> "script", script |-> script]

\* The surroundings of one run: the peers that connect, and what the name
\* system and the candidate hosts may do.  Either one peer that sends
\* anything, or one peer that runs the full session, or one peer that
\* resets a filled envelope twice, or one peer whose body is cut inside a
\* character, or NumConns peers that
\* each run one cycle against a single exchanger that accepts or refuses.
Surroundings ==
  {[peers |-> [s \in Conns |-> IF s = 1 THEN FreePeer ELSE NoPeer],
    answers |-> DnsAnswers, outcomes |-> Outcomes, logs |-> BOOLEAN],
   [peers |-> [s \in Conns |-> IF s = 1 THEN Scripted(FullScript) ELSE NoPeer],
    answers |-> DnsAnswers, outcomes |-> Outcomes, logs |-> BOOLEAN],
   [peers |-> [s \in Conns |-> IF s = 1 THEN Scripted(RsetScript) ELSE NoPeer],
    answers |-> DnsAnswers, outcomes |-> Outcomes, logs |-> BOOLEAN],
   [peers |-> [s \in Conns |-> IF s = 1 THEN Scripted(SplitCharScript) ELSE NoPeer],
    answers |-> {a \in DnsAnswers : a.ok /\ Len(a.records) = 1},
    outcomes |-> {"ok", "connect_error"}, logs |-> {TRUE}],
   [peers |-> [s \in Conns |-> Scripted(CycleScript)],
    answers |-> {a \in DnsAnswers : a.ok /\ Len(a.records) = 1},
    outcomes |-> {"ok", "connect_error"}, logs |-> {TRUE}]}

(* ----------------------------- the state ------------------------------ *)
VARIABLES
  running,           \* self.running
  listening,         \* self.sock is open
  alive,             \* the process has not exited
  connections,       \* self.connections
  emails_processed,  \* self.emails_processed
  peer,              \* what each connecting peer sends
  net,               \* what the name system, the candidate hosts and the log file may do
  ses,               \* one record per connection: the handler's locals and position
  log,               \* the content of the outcome log file (config.log_file)
  call               \* one call of a function of the server on a given input

vars == <<running, listening, alive, connections, emails_processed, peer, net, ses, log, call>>

\* No function is being called on its own.
NoCall == [fn |-> "none", arg |-> <<>>, answer |-> [ok |-> FALSE, records |-> <<>>, probes |-> {}],
           done |-> FALSE, out |-> <<>>]

NoRecord == [total_targets |-> 0, successful_deliveries |-> 0, success |-> FALSE,
             from_email |-> <<>>, email_size |-> 0]

\* The locals of _handle_client, _process_email and _relay_email for a
\* connection that has not been accepted yet.
InitSession ==
  [pc |-> "idle",          \* idle, start, recv, body, resolve, attempt, log, store, closed
   mail_from |-> <<>>,
   rcpt_to |-> <<>>,
   email_data |-> <<>>,
   raw |-> <<>>,           \* the bytes the body loop has received
   success_count |-> 0,
   nrcpt |-> 0,            \* RCPT TO: commands accepted since the envelope was last reset
   ntrue |-> 0,            \* dispatches of the current cycle that returned true
   ri |-> 0,               \* position of the for loop over rcpt_to
   dispatched |-> <<>>,    \* the recipients handed to _relay_email in this cycle
   mx_servers |-> <<>>,
   attempted |-> <<>>,     \* hosts tried by the current dispatch, in order
   resolved |-> FALSE,     \* the current dispatch has called _get_mx_servers
   last |-> "none",        \* what the last attempt on a candidate did
   ret |-> "none",         \* what the last dispatch did: none, true, false, raised
   success |-> FALSE,      \* what _process_email returned
   tmp |-> 0,              \* emails_processed as loaded by the += of line 337
   line |-> <<>>,          \* what the last recv returned
   resp |-> <<>>,          \* the replies sent by the handler's last step
   ev |-> "none",          \* that step: greet, command, chunk, relay, logged, log_error, reply, error
   cause |-> "none",       \* why the handler left its loop
   closes |-> 0,           \* calls of client_sock.close() made by the handler
   pos |-> 0,              \* non-empty reads delivered so far
   chunks |-> 0,           \* non-empty reads of the current body
   eof |-> FALSE,          \* the peer has closed the connection
   nrec |-> 0,             \* outcome records this session appended to the log
   log_errors |-> 0,       \* appends that failed (line 485)
   rec |-> NoRecord,       \* the last outcome record built
   cycles |-> 0]           \* DATA cycles this session completed

Init ==
  /\ running = TRUE
  /\ listening = TRUE
  /\ alive = TRUE
  /\ connections = 0
  /\ emails_processed = 0
  /\ \E w \in Surroundings :
       /\ peer = w.peers
       /\ net = [answers |-> w.answers, outcomes |-> w.outcomes, logs |-> w.logs]
  /\ ses = [s \in Conns |-> InitSession]
  /\ log = <<>>
  /\ call = NoCall

(* --------------------------- the handler ------------------------------ *)
\* A session loop that does not look at the flag (while True).
KeepGoing_Always(flag) == TRUE

\* while self.running: the test at the head of the session loop.
KeepGoing(flag) == flag

\* A handler that notes why it should leave its loop but goes on (no break).
Closed_NoBreak(st, why) == [st EXCEPT !.cause = why]

\* A handler that closes the connection after its loop and not in a finally
\* clause: an exception raised before the loop skips the close.
Closed_AfterLoop(st, why) ==
  [st EXCEPT !.pc = "closed", !.cause = why,
             !.closes = IF st.ev = "greet" /\ why = "error" THEN @ ELSE @ + 1]

\* The finally clause of _handle_client: the connection is closed and the
\* handler ends.
Closed(st, why) == [st EXCEPT !.pc = "closed", !.cause = why, !.closes = @ + 1]

\* Back to the head of the loop: the next recv, or out of the loop.
NextLoop(st) ==
  IF KeepGoing(running) THEN [st EXCEPT !.pc = "recv"] ELSE Closed(st, "shutdown")

\* client_sock.send(r) followed by the rest of the iteration; a send that
\* raises a transport error leaves the loop through the except clause.
Reply(st, r, ok) ==
  IF ok THEN NextLoop([st EXCEPT !.resp = Append(@, r)]) ELSE Closed(st, "error")

\* A reset that forgets to clear the sender.
ResetEnvelope_KeepsSender(st) == [st EXCEPT !.rcpt_to = <<>>, !.nrcpt = 0]

\* mail_from = ""; rcpt_to = []: the reset of the envelope.
ResetEnvelope(st) == [st EXCEPT !.mail_from = <<>>, !.rcpt_to = <<>>, !.nrcpt = 0]

\* line.endswith('\r\n.\r\n'): the test that ends the body loop.
BodyComplete(line, email_data) == EndsWith(line, Terminator)

\* _process_email with all-or-nothing success (success_count == len(rcpt_to)).
FinishProcess_AllOrNothing(st) ==
  [st EXCEPT !.rec = [total_targets |-> Len(st.rcpt_to),
                      successful_deliveries |-> st.success_count,
                      success |-> st.success_count = Len(st.rcpt_to),
                      from_email |-> st.mail_from,
                      email_size |-> Len(st.email_data)],
             !.success = (st.success_count = Len(st.rcpt_to)),
             !.pc = "log"]

\* The end of the for loop of _process_email: the outcome record is built
\* and the return value is fixed.
FinishProcess(st) ==
  [st EXCEPT !.rec = [total_targets |-> Len(st.rcpt_to),
                      successful_deliveries |-> st.success_count,
                      success |-> st.success_count > 0,
                      from_email |-> st.mail_from,
                      email_size |-> Len(st.email_data)],
             !.success = st.success_count > 0,
             !.pc = "log"]

\* A _log_test_result without its try: the error of a failed append
\* propagates through _process_email to the handler, which leaves its loop.
AfterLog_Propagates(st, written) ==
  IF written
  THEN [st EXCEPT !.nrec = @ + 1, !.ev = "logged", !.tmp = emails_processed, !.pc = "store"]
  ELSE Closed([st EXCEPT !.log_errors = @ + 1, !.ev = "log_error"], "error")

\* _log_test_result: the append of the record succeeds (written) or raises
\* and is caught; _process_email returns, and the += that follows the call
\* loads emails_processed.
AfterLog(st, written) ==
  [st EXCEPT !.nrec = IF written THEN @ + 1 ELSE @,
             !.log_errors = IF written THEN @ ELSE @ + 1,
             !.ev = IF written THEN "logged" ELSE "log_error",
             !.tmp = emails_processed,
             !.pc = "store"]

\* json.dumps(log_entry) + '\n': the line of one outcome record.  Of the
\* entry it keeps details.client_id (the session), the cycle that stands for
\* its timestamp, and success.
RecordLine(s, st) ==
  <<"{", Digits[s + 1], Digits[st.cycles + 2], IF st.rec.success THEN "t" ELSE "f", "}", "\n">>

\* A log file opened with mode 'w': the write replaces what the file held.
WriteFile_Truncate(file, text) == text

\* with open(self.config.log_file, 'a') as f: f.write(text).  The text is
\* buffered and leaves the file object as one write when the with block
\* closes it; the descriptor is open for append, so the write lands at the
\* end of the file as it is then.
WriteFile(file, text) == file \o text

\* A recipient loop that stops at the first recipient delivered.
Returned_StopAtSuccess(st, result) ==
  LET st1 == [st EXCEPT !.ret = IF result THEN "true" ELSE "false",
                        !.success_count = IF result THEN @ + 1 ELSE @,
                        !.ntrue = IF result THEN @ + 1 ELSE @,
                        !.ri = @ + 1]
  IN IF result \/ st1.ri > Len(st1.rcpt_to) THEN FinishProcess(st1)
     ELSE [st1 EXCEPT !.pc = "resolve"]

\* A recipient loop that counts every dispatch, whatever it returned.
Returned_CountsAll(st, result) ==
  LET st1 == [st EXCEPT !.ret = IF result THEN "true" ELSE "false",
                        !.success_count = @ + 1,
                        !.ntrue = IF result THEN @ + 1 ELSE @,
                        !.ri = @ + 1]
  IN IF st1.ri > Len(st1.rcpt_to) THEN FinishProcess(st1)
     ELSE [st1 EXCEPT !.pc = "resolve"]

\* _relay_email returned `result`: the for loop of _process_email goes on.
Returned(st, result) ==
  LET st1 == [st EXCEPT !.ret = IF result THEN "true" ELSE "false",
                        !.success_count = IF result THEN @ + 1 ELSE @,
                        !.ntrue = IF result THEN @ + 1 ELSE @,
                        !.ri = @ + 1]
  IN IF st1.ri > Len(st1.rcpt_to) THEN FinishProcess(st1)
     ELSE [st1 EXCEPT !.pc = "resolve"]

\* The call _process_email(mail_from, rcpt_to, email_data[:-5], client_id):
\* from here on email_data is the parameter of _process_email.
StartProcess(st) ==
  LET st1 == [st EXCEPT !.email_data = DropLast(@, 5), !.success_count = 0, !.ntrue = 0,
                        !.ri = 1, !.ret = "none", !.dispatched = <<>>]
  IN IF st1.rcpt_to = <<>> THEN FinishProcess(st1)
     ELSE [st1 EXCEPT !.pc = "resolve"]

\* A command loop whose MAIL FROM: branch starts a fresh envelope: it clears
\* the recipient list.
HandleRead_MailClears(st0, d, ok) ==
  LET st == [st0 EXCEPT !.line = d, !.resp = <<>>, !.ev = "command",
                        !.pos = IF d = <<>> THEN @ ELSE @ + 1,
                        !.eof = (d = <<>>)]
      data == Strip(Decode(d))
      kind == Command(Upper(data))
  IN IF data = <<>> THEN Closed(st, IF d = <<>> THEN "eof" ELSE "blank")
     ELSE CASE kind = "HELO" -> Reply(st, R250Hello, ok)
            [] kind = "MAIL" ->
                 Reply([st EXCEPT !.mail_from = ExtractEmail(data), !.rcpt_to = <<>>], R250, ok)
            [] kind = "RCPT" ->
                 Reply([st EXCEPT !.rcpt_to = Append(@, ExtractEmail(data)), !.nrcpt = @ + 1],
                       R250, ok)
            [] kind = "DATA" ->
                 IF ok THEN [st EXCEPT !.resp = <<R354>>, !.email_data = <<>>, !.raw = <<>>,
                                       !.chunks = 0, !.pc = "body"]
                 ELSE Closed(st, "error")
            [] kind = "QUIT" ->
                 IF ok THEN Closed([st EXCEPT !.resp = <<R221>>], "quit")
                 ELSE Closed(st, "error")
            [] kind = "RSET" ->
                 Reply(ResetEnvelope(st), R250, ok)
            [] OTHER -> Reply(st, R500, ok)

\* A command loop whose EHLO/HELO branch resets the envelope.
HandleRead_HeloResets(st0, d, ok) ==
  LET st == [st0 EXCEPT !.line = d, !.resp = <<>>, !.ev = "command",
                        !.pos = IF d = <<>> THEN @ ELSE @ + 1,
                        !.eof = (d = <<>>)]
      data == Strip(Decode(d))
      kind == Command(Upper(data))
  IN IF data = <<>> THEN Closed(st, IF d = <<>> THEN "eof" ELSE "blank")
     ELSE CASE kind = "HELO" -> Reply(ResetEnvelope(st), R250Hello, ok)
            [] kind = "MAIL" ->
                 Reply([st EXCEPT !.mail_from = ExtractEmail(data)], R250, ok)
            [] kind = "RCPT" ->
                 Reply([st EXCEPT !.rcpt_to = Append(@, ExtractEmail(data)), !.nrcpt = @ + 1],
                       R250, ok)
            [] kind = "DATA" ->
                 IF ok THEN [st EXCEPT !.resp = <<R354>>, !.email_data = <<>>, !.raw = <<>>,
                                       !.chunks = 0, !.pc = "body"]
                 ELSE Closed(st, "error")
            [] kind = "QUIT" ->
                 IF ok THEN Closed([st EXCEPT !.resp = <<R221>>], "quit")
                 ELSE Closed(st, "error")
            [] kind = "RSET" ->
                 Reply(ResetEnvelope(st), R250, ok)
            [] OTHER -> Reply(st, R500, ok)

\* One iteration of the command loop on the bytes d that recv returned; ok
\* says whether the send of the reply succeeds.
HandleRead(st0, d, ok) ==
  LET st == [st0 EXCEPT !.line = d, !.resp = <<>>, !.ev = "command",
                        !.pos = IF d = <<>> THEN @ ELSE @ + 1,
                        !.eof = (d = <<>>)]
      data == Strip(Decode(d))
      kind == Command(Upper(data))
  IN IF data = <<>> THEN Closed(st, IF d = <<>> THEN "eof" ELSE "blank")
     ELSE CASE kind = "HELO" -> Reply(st, R250Hello, ok)
            [] kind = "MAIL" ->
                 Reply([st EXCEPT !.mail_from = ExtractEmail(data)], R250, ok)
            [] kind = "RCPT" ->
                 Reply([st EXCEPT !.rcpt_to = Append(@, ExtractEmail(data)), !.nrcpt = @ + 1],
                       R250, ok)
            [] kind = "DATA" ->
                 IF ok THEN [st EXCEPT !.resp = <<R354>>, !.email_data = <<>>, !.raw = <<>>,
                                       !.chunks = 0, !.pc = "body"]
                 ELSE Closed(st, "error")
            [] kind = "QUIT" ->
                 IF ok THEN Closed([st EXCEPT !.resp = <<R221>>], "quit")
                 ELSE Closed(st, "error")
            [] kind = "RSET" ->
                 Reply(ResetEnvelope(st), R250, ok)
            [] OTHER -> Reply(st, R500, ok)

\* One iteration of the body loop on the bytes d that recv returned.
HandleBody(st0, d) ==
  LET line == Decode(d)
      st == [st0 EXCEPT !.line = d, !.resp = <<>>, !.ev = "chunk",
                        !.pos = IF d = <<>> THEN @ ELSE @ + 1,
                        !.chunks = IF d = <<>> THEN @ ELSE @ + 1,
                        !.eof = @ \/ d = <<>>,
                        !.email_data = @ \o line, !.raw = @ \o d]
  IN IF BodyComplete(line, st.email_data) THEN StartProcess(st) ELSE st

\* _relay_email without its outer try: the IndexError of a recipient
\* without '@' reaches the handler, which leaves its loop.
StartRelay_NoOuterTry(st, answer) ==
  LET parts == SplitAt(st.rcpt_to[st.ri], "@")
      st1 == [st EXCEPT !.mx_servers = <<>>, !.attempted = <<>>, !.last = "none",
                        !.resolved = Len(parts) >= 2,
                        !.ev = "relay", !.dispatched = Append(@, st.rcpt_to[st.ri])]
  IN IF Len(parts) < 2 THEN Closed([st1 EXCEPT !.ret = "raised"], "error")
     ELSE LET mx == GetMxServers(parts[2], answer)
          IN IF mx = <<>> THEN Returned([st1 EXCEPT !.mx_servers = mx], FALSE)
             ELSE [st1 EXCEPT !.mx_servers = mx, !.pc = "attempt"]

\* A dispatch that takes the text after the last '@', and so the whole
\* address when there is none (split('@')[-1]).
StartRelay_LastPart(st, answer) ==
  LET parts == SplitAt(st.rcpt_to[st.ri], "@")
      st1 == [st EXCEPT !.mx_servers = <<>>, !.attempted = <<>>, !.last = "none",
                        !.resolved = TRUE,
                        !.ev = "relay", !.dispatched = Append(@, st.rcpt_to[st.ri])]
  IN LET mx == GetMxServers(parts[Len(parts)], answer)
     IN IF mx = <<>> THEN Returned([st1 EXCEPT !.mx_servers = mx], FALSE)
        ELSE [st1 EXCEPT !.mx_servers = mx, !.pc = "attempt"]

\* domain = rcpt_to.split('@')[1]; mx_servers = self._get_mx_servers(domain).
\* A recipient without '@' raises IndexError, caught by the outer except.
StartRelay(st, answer) ==
  LET parts == SplitAt(st.rcpt_to[st.ri], "@")
      st1 == [st EXCEPT !.mx_servers = <<>>, !.attempted = <<>>, !.last = "none",
                        !.resolved = Len(parts) >= 2,
                        !.ev = "relay", !.dispatched = Append(@, st.rcpt_to[st.ri])]
  IN IF Len(parts) < 2 THEN Returned(st1, FALSE)
     ELSE LET mx == GetMxServers(parts[2], answer)
          IN IF mx = <<>> THEN Returned([st1 EXCEPT !.mx_servers = mx], FALSE)
             ELSE [st1 EXCEPT !.mx_servers = mx, !.pc = "attempt"]

\* A candidate loop that gives up at the first failure (break for continue).
AfterAttempt_StopOnFailure(st, o) ==
  LET st1 == [st EXCEPT !.attempted = Append(@, st.mx_servers[Len(st.attempted) + 1]),
                        !.last = o, !.ev = "relay"]
  IN Returned(st1, o = "ok")

\* One iteration of the for loop over mx_servers: the attempt on the next
\* candidate did o.
AfterAttempt(st, o) ==
  LET st1 == [st EXCEPT !.attempted = Append(@, st.mx_servers[Len(st.attempted) + 1]),
                        !.last = o, !.ev = "relay"]
  IN IF o = "ok" THEN Returned(st1, TRUE)
     ELSE IF Len(st1.attempted) < Len(st1.mx_servers) THEN st1
     ELSE Returned(st1, FALSE)

\* A DATA branch in which a failed relay, once answered, ends the session.
AfterProcess_FailureCloses(st, ok) ==
  LET st1 == [st EXCEPT !.cycles = @ + 1, !.resp = <<>>, !.ev = "reply",
                        !.email_data = <<>>, !.raw = <<>>, !.success_count = 0, !.ntrue = 0,
                        !.ri = 0,
                        !.dispatched = <<>>,
                        !.mx_servers = <<>>, !.attempted = <<>>, !.ret = "none",
                        !.resolved = FALSE]
  IN IF ok /\ st.success
     THEN NextLoop(ResetEnvelope([st1 EXCEPT !.resp = <<R250Queued>>]))
     ELSE IF ok THEN Closed(ResetEnvelope([st1 EXCEPT !.resp = <<R550>>]), "relay")
     ELSE Closed(st1, "error")

\* The end of the DATA branch: the reply and the reset of the envelope.
AfterProcess(st, ok) ==
  LET st1 == [st EXCEPT !.cycles = @ + 1, !.resp = <<>>, !.ev = "reply",
                        !.email_data = <<>>, !.raw = <<>>, !.success_count = 0, !.ntrue = 0,
                        !.ri = 0,
                        !.dispatched = <<>>,
                        !.mx_servers = <<>>, !.attempted = <<>>, !.ret = "none",
                        !.resolved = FALSE]
  IN IF ok
     THEN NextLoop(ResetEnvelope(
            [st1 EXCEPT !.resp = <<IF st.success THEN R250Queued ELSE R550>>]))
     ELSE Closed(st1, "error")

\* What the peer of s may deliver to the next recv.
Inputs(s) ==
  LET st == ses[s]
      p == peer[s]
      offered ==
        IF p.mode = "script"
        THEN IF st.pos < Len(p.script) THEN {p.script[st.pos + 1]} ELSE {}
        ELSE IF st.pos >= MaxReads \/ st.eof THEN {}
        ELSE IF st.pc = "body"
        THEN IF st.chunks < MaxBody THEN Chunks ELSE {}
        ELSE {d \in Commands :
                Command(Upper(Strip(Decode(d)))) = "RCPT" => Len(st.rcpt_to) < MaxRcpt}
  IN IF p.mode = "script" /\ offered # {} THEN offered ELSE offered \cup {<<>>}

(* ----------------------------- actions -------------------------------- *)
\* An accept loop that waits for each session to end (thread.join()) before
\* it accepts again.
Accept_Serial ==
  /\ alive /\ running /\ listening
  /\ connections < NumConns
  /\ peer[connections + 1].mode # "none"
  /\ \A t \in 1..connections : ses[t].pc = "closed"
  /\ connections' = connections + 1
  /\ ses' = [ses EXCEPT ![connections + 1].pc = "start"]
  /\ UNCHANGED <<running, listening, alive, emails_processed, peer, net, log, call>>

\* start(), lines 251-261: one accepted connection, one handler thread.
Accept ==
  /\ alive /\ running /\ listening
  /\ connections < NumConns
  /\ peer[connections + 1].mode # "none"
  /\ connections' = connections + 1
  /\ ses' = [ses EXCEPT ![connections + 1].pc = "start"]
  /\ UNCHANGED <<running, listening, alive, emails_processed, peer, net, log, call>>

\* _signal_handler and the finally clause of start(): SIGINT clears the flag,
\* sys.exit unwinds the main thread, the listening socket is closed.
Signal ==
  /\ alive /\ running
  /\ running' = FALSE
  /\ listening' = FALSE
  /\ UNCHANGED <<alive, connections, emails_processed, peer, net, ses, log, call>>

\* The process ends once the main thread has unwound: the handler threads
\* are daemon threads and stop wherever they are.
Exit ==
  /\ alive /\ ~running
  /\ alive' = FALSE
  /\ UNCHANGED <<running, listening, connections, emails_processed, peer, net, ses, log, call>>

\* The handler starts: the greeting, then the first test of the loop.
Greet(s) ==
  /\ alive /\ ses[s].pc = "start"
  /\ \E ok \in BOOLEAN :
       ses' = [ses EXCEPT ![s] = Reply([ses[s] EXCEPT !.ev = "greet"], R220, ok)]
  /\ UNCHANGED <<running, listening, alive, connections, emails_processed, peer, net, log, call>>

\* A handler that keeps the envelope in fields of the server object, which
\* all sessions share.
Recv_SharedEnvelope(s) ==
  /\ alive /\ ses[s].pc = "recv"
  /\ \E d \in Inputs(s), ok \in BOOLEAN :
       LET st == HandleRead(ses[s], d, ok)
       IN ses' = [t \in Conns |->
                    IF t = s THEN st
                    ELSE [ses[t] EXCEPT !.mail_from = st.mail_from,
                                        !.rcpt_to = st.rcpt_to]]
  /\ UNCHANGED <<running, listening, alive, connections, emails_processed, peer, net, log, call>>

\* recv at the head of the command loop returns.
Recv(s) ==
  /\ alive /\ ses[s].pc = "recv"
  /\ \E d \in Inputs(s), ok \in BOOLEAN :
       ses' = [ses EXCEPT ![s] = HandleRead(ses[s], d, ok)]
  /\ UNCHANGED <<running, listening, alive, connections, emails_processed, peer, net, log, call>>

\* recv in the body loop returns.
BodyRecv(s) ==
  /\ alive /\ ses[s].pc = "body"
  /\ \E d \in Inputs(s) :
       ses' = [ses EXCEPT ![s] = HandleBody(ses[s], d)]
  /\ UNCHANGED <<running, listening, alive, connections, emails_processed, peer, net, log, call>>

\* A transport error that is not caught in the handler and takes the server
\* down with it.
RecvError_StopsServer(s) ==
  /\ alive /\ ses[s].pc \in {"recv", "body"} /\ ~ses[s].eof
  /\ ses' = [ses EXCEPT ![s] = Closed([@ EXCEPT !.resp = <<>>, !.ev = "error"], "error")]
  /\ running' = FALSE
  /\ listening' = FALSE
  /\ UNCHANGED <<alive, connections, emails_processed, peer, net, log, call>>

\* recv raises a transport error (a peer that has closed gives empty reads).
RecvError(s) ==
  /\ alive /\ ses[s].pc \in {"recv", "body"} /\ ~ses[s].eof
  /\ ses' = [ses EXCEPT ![s] = Closed([@ EXCEPT !.resp = <<>>, !.ev = "error"], "error")]
  /\ UNCHANGED <<running, listening, alive, connections, emails_processed, peer, net, log, call>>

\* _relay_email begins for the next recipient.
Resolve(s) ==
  /\ alive /\ ses[s].pc = "resolve"
  /\ \E answer \in net.answers :
       ses' = [ses EXCEPT ![s] = StartRelay(ses[s], answer)]
  /\ UNCHANGED <<running, listening, alive, connections, emails_processed, peer, net, log, call>>

\* One candidate host is attempted.
Attempt(s) ==
  /\ alive /\ ses[s].pc = "attempt"
  /\ \E o \in net.outcomes :
       ses' = [ses EXCEPT ![s] = AfterAttempt(ses[s], o)]
  /\ UNCHANGED <<running, listening, alive, connections, emails_processed, peer, net, log, call>>

\* The outcome record is appended to the log file, or the append raises and
\* the file is left as it was.
Log(s) ==
  /\ alive /\ ses[s].pc = "log"
  /\ \E written \in net.logs :
       /\ ses' = [ses EXCEPT ![s] = AfterLog(ses[s], written)]
       /\ log' = IF written THEN WriteFile(log, RecordLine(s, ses[s])) ELSE log
  /\ UNCHANGED <<running, listening, alive, connections, emails_processed, peer, net, call>>

\* The store of self.emails_processed += 1, the reply, the reset.
Store(s) ==
  /\ alive /\ ses[s].pc = "store"
  /\ emails_processed' = ses[s].tmp + 1
  /\ \E ok \in BOOLEAN :
       ses' = [ses EXCEPT ![s] = AfterProcess(ses[s], ok)]
  /\ UNCHANGED <<running, listening, alive, connections, peer, net, log, call>>

Step(s) ==
  \/ Greet(s)
  \/ Recv(s)
  \/ BodyRecv(s)
  \/ RecvError(s)
  \/ Resolve(s)
  \/ Attempt(s)
  \/ Log(s)
  \/ Store(s)

Next ==
  \/ Accept
  \/ Signal
  \/ Exit
  \/ \E s \in Conns : Step(s)

Spec == Init /\ [][Next]_vars

\* Every handler thread that can take a step of its own is scheduled: the
\* greeting, the resolution and the attempts (each bounded by a timeout), the
\* append to the log, the store and the reply, and a recv on a connection its peer has closed, which
\* returns at once.  A peer that has not closed may stay silent for ever, and
\* transport errors, the interrupt signal and new connections need not happen.
Fairness ==
  \A s \in Conns :
    /\ WF_vars(Greet(s))
    /\ WF_vars(ses[s].eof /\ BodyRecv(s))
    /\ WF_vars(Resolve(s))
    /\ WF_vars(Attempt(s))
    /\ WF_vars(Log(s))
    /\ WF_vars(Store(s))

FairSpec == Init /\ [][Next]_vars /\ Fairness

(* ------------------- the functions called on their own ---------------- *)
\* The texts of at most n characters over an alphabet.
Texts(alphabet, n) == UNION {[1..k -> alphabet] : k \in 0..n}

\* Command lines as a peer may send them: brackets, letters, blanks, tabs.
LineAlphabet == {"<", ">", "a", "b", " ", "\t"}

\* Recipient addresses as _extract_email may return them.
AddrAlphabet == {"a", "b", "@"}

\* The domains the resolver is asked about.
Domains == {<<"y">>, <<"x", ".", "z">>}

\* What a lookup may answer: records in any order of preference, ties
\* included, or a failure with any set of fallback names that resolve.
Preferences == {5, 10, 20}
Lookups ==
  {[ok |-> TRUE,
    records |-> [i \in 1..Len(p) |-> [preference |-> p[i], exchange |-> MxRecord(i).exchange]],
    probes |-> {}] : p \in UNION {[1..n -> Preferences] : n \in 1..MaxMx}}
  \cup {a \in DnsAnswers : ~a.ok}

\* The calls: _extract_email(line), _get_mx_servers(domain) against a lookup,
\* and _relay_email(mail_from, rcpt, email_data) up to its resolution.
Calls ==
  {[NoCall EXCEPT !.fn = "extract", !.arg = t] : t \in Texts(LineAlphabet, MaxLine)}
  \cup {[NoCall EXCEPT !.fn = "resolve", !.arg = d, !.answer = a] : d \in Domains, a \in Lookups}
  \cup {[NoCall EXCEPT !.fn = "relay", !.arg = r, !.answer = a] :
           r \in Texts(AddrAlphabet, MaxAddr), a \in DnsAnswers}

\* The calls of run_scenario by the test command: a scenario id around the
\* range of a list of up to NumScenarios scenarios, what the send to the SMTP
\* server does, and whether the log file can be appended to.
ScenarioCalls ==
  {[NoCall EXCEPT !.fn = "scenario",
                  !.arg = [scenario_id |-> i, count |-> n, outcome |-> o, writable |-> w]] :
     i \in (0 - NumScenarios - 1)..(NumScenarios + 1), n \in 0..NumScenarios,
     o \in Outcomes, w \in BOOLEAN}

\* The locals of a handler whose _process_email is about to dispatch rcpt.
Dispatching(rcpt) ==
  [InitSession EXCEPT !.pc = "resolve", !.rcpt_to = <<rcpt>>, !.ri = 1]

CallInit ==
  /\ running = TRUE
  /\ listening = TRUE
  /\ alive = TRUE
  /\ connections = 0
  /\ emails_processed = 0
  /\ peer = [s \in Conns |-> NoPeer]
  /\ net = [answers |-> {}, outcomes |-> {}, logs |-> {}]
  /\ ses = [s \in Conns |-> InitSession]
  /\ log = <<>>
  /\ call \in Calls \cup ScenarioCalls

\* _extract_email returns.
CallExtract ==
  /\ call.fn = "extract" /\ ~call.done
  /\ call' = [call EXCEPT !.done = TRUE, !.out = ExtractEmail(call.arg)]
  /\ UNCHANGED <<running, listening, alive, connections, emails_processed, peer, net, ses, log>>

\* _get_mx_servers returns.
CallGetMx ==
  /\ call.fn = "resolve" /\ ~call.done
  /\ call' = [call EXCEPT !.done = TRUE, !.out = GetMxServers(call.arg, call.answer)]
  /\ UNCHANGED <<running, listening, alive, connections, emails_processed, peer, net, ses, log>>

\* _relay_email has resolved the candidates of its recipient.
CallRelay ==
  /\ call.fn = "relay" /\ ~call.done
  /\ call' = [call EXCEPT !.done = TRUE,
                          !.out = StartRelay(Dispatching(call.arg), call.answer)]
  /\ UNCHANGED <<running, listening, alive, connections, emails_processed, peer, net, ses, log>>

\* The test command: run_scenario returns and main exits with its code.
CallScenario ==
  /\ call.fn = "scenario" /\ ~call.done
  /\ call' = [call EXCEPT !.done = TRUE,
                          !.out = RunScenario(call.arg.scenario_id, call.arg.count,
                                              call.arg.outcome, call.arg.writable)]
  /\ UNCHANGED <<running, listening, alive, connections, emails_processed, peer, net, ses, log>>

CallNext ==
  \/ CallExtract
  \/ CallGetMx
  \/ CallRelay
  \/ CallScenario

CallSpec == CallInit /\ [][CallNext]_vars

(* ------------------------------ claims -------------------------------- *)
\* The recipient whose dispatch has just ended in session record st.
Dispatched(st) == st.rcpt_to[st.ri - 1]

\* A dispatch of st has ended and its locals are still there.
HasReturned(st) == st.ret # "none" /\ st.pc \in {"resolve", "log", "store"}

\* C1: a peer that sends EHLO, MAIL FROM:<a@x>, RCPT TO:<b@y>, DATA, a body
\* ending in CR LF . CR LF and QUIT, one per read, gets 220 and then the
\* replies 250 (multi-line), 250, 250, 354, 250, 221, one per read and in that
\* order, when the relay of its recipient succeeds and no transport error
\* occurs; the session emits no record before the body and, when the log
\* file can be written, exactly one after it, with success = true.
C1_FullSession ==
  \A s \in Conns :
    LET st == ses[s]
        waiting == st.pc = "recv"
    IN peer[s] = Scripted(FullScript) =>
         /\ (waiting /\ st.pos = 0 => st.resp = <<R220>>)
         /\ (waiting /\ st.pos = 1 => st.resp = <<R250Hello>>)
         /\ (waiting /\ st.pos \in {2, 3} => st.resp = <<R250>>)
         /\ (st.pos = 3 /\ waiting => st.mail_from = <<"a", "@", "x">>
                                      /\ st.rcpt_to = << <<"b", "@", "y">> >>)
         /\ (st.pos = 4 /\ st.cause = "none" => st.pc = "body" /\ st.resp = <<R354>>)
         /\ (st.pos <= 4 => st.nrec = 0)
         /\ (st.pos = 5 /\ st.cause = "none" =>
               /\ st.pc \in {"resolve", "attempt", "log", "store", "recv"}
               /\ (st.pc # "recv" => st.resp = <<>>))
         /\ (st.pos = 5 /\ waiting /\ st.last = "ok" =>
               /\ st.resp = <<R250Queued>> /\ st.rec.success
               /\ st.nrec + st.log_errors = 1)
         /\ (st.pos = 6 /\ st.cause # "error" =>
               st.pc = "closed" /\ st.cause = "quit" /\ st.resp = <<R221>>)
         /\ (st.pos = 6 /\ st.last = "ok" =>
               st.rec.success /\ st.nrec + st.log_errors = 1)
         /\ \A i \in 1..Len(st.resp) : Code(st.resp[i]) \in {220, 250, 354, 221, 550}

\* C1 witness: the full session has ended by QUIT after a successful relay.
C1_Witness ==
  \E s \in Conns :
    /\ peer[s] = Scripted(FullScript)
    /\ ses[s].pos = 6 /\ ses[s].cause = "quit" /\ ses[s].resp = <<R221>>
    /\ ses[s].last = "ok" /\ ses[s].nrec = 1 /\ ses[s].rec.success

\* C2: when each of N concurrent sessions has completed one full
\* MAIL/RCPT/DATA cycle, emails_processed equals N.
C2_CounterEqualsSessions ==
  (\A s \in Conns : peer[s] = Scripted(CycleScript) /\ ses[s].cycles = 1)
    => emails_processed = NumConns

\* C3: within one dispatch the hosts attempted are a prefix of the resolved
\* list, in list order; the loop goes on to the next candidate only after a
\* failure; the dispatch returns true right after the first success and
\* returns false only after the whole list has been attempted.
C3_AttemptPrefix ==
  \A s \in Conns :
    LET st == ses[s]
        n == Len(st.attempted)
    IN /\ n <= Len(st.mx_servers)
       /\ st.attempted = SubSeq(st.mx_servers, 1, n)
       /\ (st.pc = "attempt" => n < Len(st.mx_servers) /\ (n > 0 => st.last # "ok"))
       /\ (HasReturned(st) /\ st.ret = "true" => n >= 1 /\ st.last = "ok")
       /\ (HasReturned(st) /\ st.ret = "false" => n = Len(st.mx_servers) /\ st.last # "ok")

\* C3 witness: of three candidates the first failed, the second succeeded
\* and the dispatch has returned without attempting the third.
C3_Witness ==
  \E s \in Conns :
    /\ HasReturned(ses[s]) /\ ses[s].ret = "true"
    /\ Len(ses[s].mx_servers) = 3 /\ Len(ses[s].attempted) = 2

\* C4: a dispatch never raises to its caller; it returns true exactly when a
\* candidate of the resolved list completed the submission, and false when
\* the recipient has no domain, when the resolved list is empty and when
\* every candidate failed.
C4_DispatchResult ==
  \A s \in Conns :
    LET st == ses[s]
    IN /\ st.ret \in {"none", "true", "false"}
       /\ (st.pc \in {"resolve", "attempt", "log", "store"} => st.cause = "none")
       /\ (HasReturned(st) =>
             /\ st.ret = "true" <=> (st.attempted # <<>> /\ st.last = "ok")
             /\ (st.mx_servers = <<>> => st.ret = "false")
             /\ (Len(SplitAt(Dispatched(st), "@")) < 2 =>
                   st.ret = "false" /\ st.mx_servers = <<>>))

\* C4 witness: the dispatch of a recipient without '@' has returned false.
C4_Witness ==
  \E s \in Conns :
    /\ HasReturned(ses[s]) /\ ses[s].ret = "false"
    /\ Len(SplitAt(Dispatched(ses[s]), "@")) < 2

\* The last step of session record st sent the reply that ends a DATA branch.
JustReplied(st) == st.ev = "reply" /\ st.resp \in {<<R250Queued>>, <<R550>>}

\* C5: the reply after a complete body is 250 exactly when at least one
\* recipient dispatch of the envelope succeeded and 550 otherwise, and the
\* success field of the emitted record has the same truth value.
C5_ReplyMatchesDeliveries ==
  \A s \in Conns :
    LET st == ses[s]
    IN /\ (st.ev = "reply" /\ st.cause # "error" => JustReplied(st))
       /\ (JustReplied(st) =>
             /\ st.resp = <<R250Queued>> <=> st.rec.successful_deliveries > 0
             /\ st.rec.success <=> st.rec.successful_deliveries > 0)
       /\ (st.pc \in {"log", "store"} => (st.success <=> st.success_count > 0))

\* C5 witness: an envelope of two recipients of which exactly one was
\* delivered has been answered 250.
C5_Witness ==
  \E s \in Conns :
    /\ ses[s].resp = <<R250Queued>>
    /\ ses[s].rec.total_targets = 2
    /\ ses[s].rec.successful_deliveries = 1

\* C6: a session that is still receiving a body has not yet accumulated a
\* text that ends with the terminator CR LF . CR LF.
C6_BodyEndsAtTerminator ==
  \A s \in Conns :
    ses[s].pc = "body" => ~EndsWith(ses[s].email_data, Terminator)

\* C7: once a session has had an empty read, it eventually is closed (or the
\* process has ended).
C7_EmptyReadCloses ==
  \A s \in Conns :
    (ses[s].eof /\ alive) ~> (ses[s].pc = "closed" \/ ~alive)

\* C8: as long as no interrupt signal has arrived, a closed session was
\* closed by QUIT, by an empty read of a closed peer or by a transport error.
C8_CloseCauses ==
  \A s \in Conns :
    running /\ ses[s].pc = "closed" => ses[s].cause \in {"quit", "eof", "error"}

\* The upper-cased command line of the last read of session record st.
LastCommand(st) == Upper(Strip(Decode(st.line)))

\* C9: a command line that starts with DATA is answered 354 and one that
\* starts with QUIT is answered 221, whatever follows the keyword.
C9_KeywordPrefix ==
  \A s \in Conns :
    LET st == ses[s]
    IN st.ev = "command" /\ st.resp # <<>> =>
         /\ (StartsWith(LastCommand(st), KwData) => Code(st.resp[1]) = 354)
         /\ (StartsWith(LastCommand(st), KwQuit) => Code(st.resp[1]) = 221)

CommandLines(d) ==
  SelectSeq([i \in 1..Len(SplitAt(Decode(d), "\n")) |->
               Strip(SplitAt(Decode(d), "\n")[i])],
            LAMBDA l : l # <<>>)

\* C11: every command line of a read is acted on and gets its own reply: a
\* session that has handled a read without a transport error has sent as
\* many replies as the read holds command lines.
C11_OneReplyPerLine ==
  \A s \in Conns :
    LET st == ses[s]
    IN st.ev = "command" /\ st.cause # "error" =>
         Len(st.resp) = Len(CommandLines(st.line))

\* Session record st has just handled a RSET command without a transport
\* error.
AfterRset(st) ==
  /\ st.ev = "command" /\ st.cause # "error"
  /\ \E data \in {Strip(Decode(st.line))} : Command(Upper(data)) = "RSET"

\* C12: a RSET is answered 250 and leaves the envelope empty; a second RSET
\* right after it is answered 250 again and leaves the session as the first
\* did (but for the count of reads), whatever the envelope held before; for
\* the peer that fills the envelope and then sends RSET twice, the envelope
\* is filled before the first RSET.
C12_RsetTwice ==
  [][\A s \in Conns :
       LET a == ses[s]
           b == ses'[s]
       IN /\ (AfterRset(b) =>
                b.resp = <<R250>> /\ b.mail_from = <<>> /\ b.rcpt_to = <<>>)
          /\ (b.pos = a.pos + 1 /\ a.pc = "recv" /\ running' /\ AfterRset(a) /\ AfterRset(b) =>
                b = [a EXCEPT !.pos = @ + 1, !.line = b.line])
          /\ (peer[s] = Scripted(RsetScript) /\ b.pos = 2 /\ b.cause = "none" =>
                b.mail_from # <<>> /\ b.rcpt_to # <<>>)]_vars

\* C12 witness: the peer that filled the envelope has had its second RSET
\* answered.
C12_Witness ==
  \E s \in Conns :
    /\ peer[s] = Scripted(RsetScript)
    /\ ses[s].pos = 4 /\ AfterRset(ses[s]) /\ ses[s].pc = "recv"
    /\ ses[s].resp = <<R250>> /\ ses[s].mail_from = <<>> /\ ses[s].rcpt_to = <<>>

\* C13: the step that completes a DATA cycle of a session raises
\* emails_processed by exactly one; by then the session has appended one
\* outcome record per completed cycle (when the log file can be written),
\* and it waits for the next command with an empty envelope.
C13_CycleCountsOnce ==
  [][\A s \in Conns :
       LET a == ses[s]
           b == ses'[s]
       IN b.cycles = a.cycles + 1 =>
            /\ emails_processed' = emails_processed + 1
            /\ (b.log_errors = 0 => b.nrec = b.cycles)
            /\ (b.pc = "recv" => b.mail_from = <<>> /\ b.rcpt_to = <<>>)]_vars

\* C14: during a DATA cycle the recipients handed to the dispatcher are the
\* entries of the recipient list in insertion order, one call per entry; when
\* the loop has ended every entry, duplicates included, has had its call,
\* whatever the earlier calls returned.
C14_OneDispatchPerRecipient ==
  \A s \in Conns :
    LET st == ses[s]
        n == Len(st.dispatched)
    IN /\ n <= Len(st.rcpt_to)
       /\ st.dispatched = SubSeq(st.rcpt_to, 1, n)
       /\ (st.pc = "resolve" => n = st.ri - 1)
       /\ (st.pc = "attempt" => n = st.ri)
       /\ (st.pc \in {"log", "store"} => st.dispatched = st.rcpt_to)

\* C14 witness: an envelope that names the same recipient twice has had two
\* dispatches, the first delivered and the second not.
C14_Witness ==
  \E s \in Conns :
    LET st == ses[s]
    IN /\ st.pc = "store" /\ Len(st.rcpt_to) = 2 /\ st.rcpt_to[1] = st.rcpt_to[2]
       /\ st.dispatched = st.rcpt_to
       /\ st.success_count = 1 /\ st.ret = "false"

\* C15: a session that has handled the command QUIT (in any letter case,
\* without a transport error) has sent 221 and is closed; a closed session
\* takes no further step: it sends nothing, reads nothing and relays nothing.
C15_QuitCloses ==
  [][\A s \in Conns :
       LET a == ses[s]
           b == ses'[s]
       IN /\ (b.ev = "command" /\ b.cause # "error" =>
                \A data \in {Strip(Decode(b.line))} :
                  Upper(data) = KwQuit =>
                    b.resp = <<R221>> /\ b.pc = "closed" /\ b.cause = "quit")
          /\ (a.pc = "closed" => b = a)]_vars

\* C15 witness: a session that relayed a message has been closed by QUIT.
C15_Witness ==
  \E s \in Conns :
    /\ ses[s].pc = "closed" /\ ses[s].cause = "quit"
    /\ ses[s].resp = <<R221>> /\ ses[s].cycles = 1

\* The sessions started so far.
Started == {s \in Conns : ses[s].pc # "idle"}

\* C16: connections equals the number of sessions started; a step that
\* changes it raises it by one and starts exactly one session, leaving every
\* other session as it is; and while the server runs and a peer is waiting,
\* the next accept can happen whatever the earlier sessions are doing.
C16_AcceptCounts ==
  [][/\ connections' = Cardinality(Started')
     /\ (connections' # connections =>
           /\ connections' = connections + 1
           /\ ses[connections'].pc = "idle" /\ ses'[connections'].pc = "start"
           /\ \A t \in Conns \ {connections'} : ses'[t] = ses[t])
     /\ (alive /\ running /\ listening /\ connections < NumConns
           /\ peer[connections + 1].mode # "none" => ENABLED Accept)]_vars

\* C16 witness: the second connection has just been accepted while the
\* first session is in the middle of a relay.
C16_Witness ==
  /\ connections = 2
  /\ ses[2].pc = "start"
  /\ ses[1].pc = "attempt"

\* C17: the step in which a session meets a transport error (a failed read
\* or a failed send) closes that session and leaves the others and the
\* acceptor alone: every other session keeps its state, and the flag, the
\* listening endpoint, the process and the connections counter are as before.
C17_ErrorIsLocal ==
  [][\A s \in Conns :
       ses'[s].cause = "error" /\ ses[s].cause # "error" =>
         /\ ses'[s].pc = "closed"
         /\ \A t \in Conns \ {s} : ses'[t] = ses[t]
         /\ running' = running /\ listening' = listening /\ alive' = alive
         /\ connections' = connections]_vars

\* C17 witness: one session was closed by a transport error before it read
\* anything, the server still runs, and another session has had a message
\* relayed and answered.
C17_Witness ==
  \E s, t \in Conns :
    /\ s # t /\ running /\ listening /\ alive
    /\ ses[s].pc = "closed" /\ ses[s].cause = "error" /\ ses[s].pos = 0
    /\ ses[t].cycles = 1 /\ ses[t].resp = <<R250Queued>> /\ ses[t].pc = "recv"

\* The envelope of session record st.
Envelope(st) == <<st.mail_from, st.rcpt_to>>

\* C18: a step that changes the envelope or the replies of a session is a
\* step of that session alone, and the envelope changes only when the
\* session handles a read of its own connection or ends its own DATA cycle;
\* so for a peer that sends MAIL, RCPT, DATA the envelope and the reply
\* after each read are fixed by the reads alone, whatever another session
\* does meanwhile.
C18_EnvelopeIsOwn ==
  [][\A s \in Conns :
       LET a == ses[s]
           b == ses'[s]
       IN /\ (Envelope(b) # Envelope(a) \/ b.resp # a.resp =>
                \A t \in Conns \ {s} : ses'[t] = ses[t])
          /\ (Envelope(b) # Envelope(a) => a.pc \in {"recv", "store"})
          /\ (peer[s] = Scripted(CycleScript) /\ b.cause = "none" /\ b.cycles = 0 =>
                /\ (b.pos = 0 /\ b.pc = "recv" =>
                      Envelope(b) = <<<<>>, <<>>>> /\ b.resp = <<R220>>)
                /\ (b.pos = 1 =>
                      Envelope(b) = <<ExtractEmail(CmdMail), <<>>>> /\ b.resp = <<R250>>)
                /\ (b.pos = 2 =>
                      /\ Envelope(b) = <<ExtractEmail(CmdMail), <<ExtractEmail(CmdRcpt)>>>>
                      /\ b.resp = <<R250>>)
                /\ (b.pos = 3 =>
                      /\ Envelope(b) = <<ExtractEmail(CmdMail), <<ExtractEmail(CmdRcpt)>>>>
                      /\ b.resp = <<R354>>))]_vars

\* C18 witness: one session still holds its filled envelope after another
\* session has completed its cycle and reset its own.
C18_Witness ==
  \E s, t \in Conns :
    /\ s # t
    /\ ses[s].pc = "recv" /\ ses[s].pos = 2 /\ ses[s].rcpt_to # <<>>
    /\ ses[t].cycles = 1 /\ ses[t].pc = "recv" /\ Envelope(ses[t]) = <<<<>>, <<>>>>

\* The numeric code of the reply that the command loop gives to a command
\* of each kind.
ReplyCode(kind) ==
  CASE kind \in {"HELO", "MAIL", "RCPT", "RSET"} -> 250
    [] kind = "DATA" -> 354
    [] kind = "QUIT" -> 221
    [] OTHER -> 500

\* Session record st has completed a DATA cycle, and in the last one every
\* relay attempt failed.
AfterFailedCycle(st) ==
  st.cycles > 0 /\ ~st.rec.success /\ st.last \notin {"none", "ok"}

\* C19: a DATA cycle in which every relay attempt failed is answered 550 and
\* nothing else happens to the session: it is open (unless the server is
\* shutting down), without error, with an empty envelope; the commands it
\* reads afterwards get the reply of their kind, MAIL FROM: and RCPT TO: fill
\* the envelope again and DATA starts a new body.
C19_FailureIsOnlyA550 ==
  [][\A s \in Conns :
       LET a == ses[s]
           b == ses'[s]
       IN /\ (b.ev = "reply" /\ AfterFailedCycle(b) /\ b.cause # "error" =>
                /\ b.resp = <<R550>>
                /\ Envelope(b) = <<<<>>, <<>>>>
                /\ b.cause \in {"none", "shutdown"}
                /\ (running' => b.pc = "recv" /\ b.cause = "none"))
          /\ (AfterFailedCycle(a) /\ AfterFailedCycle(b) /\ b.pos = a.pos + 1
                /\ b.ev = "command" /\ b.cause # "error" =>
                \A data \in {Strip(Decode(b.line))} \ {<<>>} :
                  \A kind \in {Command(Upper(data))} :
                    /\ Len(b.resp) = 1 /\ Code(b.resp[1]) = ReplyCode(kind)
                    /\ (kind = "MAIL" => b.mail_from = ExtractEmail(data))
                    /\ (kind = "RCPT" => b.rcpt_to = Append(a.rcpt_to, ExtractEmail(data)))
                    /\ (kind = "DATA" => b.pc = "body")
                    /\ (kind = "QUIT" => b.pc = "closed" /\ b.cause = "quit"))]_vars

\* C19 witness: after a cycle in which every attempt failed and which was
\* answered 550, the session has accepted a recipient for a new envelope.
C19_Witness ==
  \E s \in Conns :
    LET st == ses[s]
    IN /\ AfterFailedCycle(st) /\ st.rec.total_targets > 0
       /\ st.pc = "recv" /\ st.ev = "command" /\ st.resp = <<R250>>
       /\ st.rcpt_to # <<>>

\* Session s is blocked in a recv, after n reads, on a connection that its
\* peer has not closed.
WaitingAt(s, n) ==
  alive /\ ses[s].pc \in {"recv", "body"} /\ ses[s].pos = n /\ ~ses[s].eof

\* C20: a session that waits in a recv does not wait for ever: the read
\* returns (the peer sent or closed, or a transport error), or a timeout
\* takes the session out of the read and ends it.
C20_SilentPeerTimesOut ==
  \A s \in Conns : \A n \in 0..MaxReads :
    WaitingAt(s, n) ~> ~WaitingAt(s, n)

\* The lines of the log file: the text before each newline, and after the
\* last one what is left (empty when the file ends with a newline).
LogLines == SplitAt(log, "\n")

\* The text is the line of one outcome record of session s.
IsRecordOf(text, s) ==
  /\ Len(text) = 5
  /\ text[1] = "{" /\ text[5] = "}"
  /\ text[2] = Digits[s + 1]
  /\ \E k \in 1..(MaxReads + 1) : text[3] = Digits[k + 1]
  /\ text[4] \in {"t", "f"}

\* C21: whatever the order in which the sessions append, the log file is a
\* sequence of complete lines, each the whole line of one record of one
\* session; no two lines are the same record, and the file holds as many
\* lines of each session as that session has appended (none lost, none cut).
C21_RecordsAreWholeLines ==
  \A lines \in {LogLines} :
    \A n \in {Len(lines) - 1} :
      /\ lines[n + 1] = <<>>
      /\ \A i \in 1..n : \E s \in Conns : IsRecordOf(lines[i], s)
      /\ \A i, j \in 1..n : i # j => lines[i] # lines[j]
      /\ \A s \in Conns :
           Cardinality({i \in 1..n : IsRecordOf(lines[i], s)}) = ses[s].nrec

\* C21 witness: two sessions were in _process_email at the same time and the
\* session accepted second appended its record first; the file holds both.
C21_Witness ==
  /\ Len(LogLines) = 3
  /\ IsRecordOf(LogLines[1], 2) /\ IsRecordOf(LogLines[2], 1)
  /\ ses[1].nrec = 1 /\ ses[2].nrec = 1

\* C22: when the append of the outcome record fails, the failure stays in
\* _log_test_result: the file is left as it was, _process_email returns
\* true exactly when at least one dispatch succeeded, the handler goes on to
\* count the message, answers 250 or 550 by that result, and goes back to
\* waiting for the next command.
C22_LogFailureContained ==
  [][\A s \in Conns :
       LET a == ses[s]
           b == ses'[s]
       IN /\ (a.pc = "log" /\ b.log_errors = a.log_errors + 1 =>
                /\ b.pc = "store" /\ b.cause = "none"
                /\ b.success = (a.success_count > 0)
                /\ b.nrec = a.nrec /\ log' = log)
          /\ (a.pc = "store" /\ a.ev = "log_error" /\ b # a =>
                /\ emails_processed' = emails_processed + 1
                /\ b.cycles = a.cycles + 1
                /\ (b.cause # "error" =>
                      b.resp = <<IF a.success_count > 0 THEN R250Queued ELSE R550>>)
                /\ (b.cause # "error" /\ running => b.pc = "recv"))]_vars

\* C22 witness: a cycle whose record could not be appended was answered 250
\* and counted, and the session waits for the next command.
C22_Witness ==
  \E s \in Conns :
    /\ ses[s].pc = "recv" /\ ses[s].ev = "reply" /\ ses[s].resp = <<R250Queued>>
    /\ ses[s].cycles = 1 /\ ses[s].log_errors = 1 /\ ses[s].nrec = 0
    /\ emails_processed = 1 /\ log = <<>>

\* The text after the last '@' of a text that holds one.
AfterLastAt(t) == SubSeq(t, Max({i \in 1..Len(t) : t[i] = "@"}) + 1, Len(t))

\* The domain _relay_email handed to the resolver, read off the first
\* fallback name, which the resolver builds as "mail." + domain.
DomainResolved(st) == SubSeq(st.mx_servers[1], 6, Len(st.mx_servers[1]))

\* C23: for every recipient address that holds at least one '@', the domain
\* handed to the resolver is the text after the last '@' of the address.
C23_DomainAfterLastAt ==
  /\ call.fn = "relay" /\ call.done
  /\ \E i \in 1..Len(call.arg) : call.arg[i] = "@"
  /\ ~call.answer.ok /\ 1 \in call.answer.probes
  => DomainResolved(call.out) = AfterLastAt(call.arg)

\* The place record i of a lookup takes when the records are ordered by
\* ascending preference and records of equal preference keep their order.
Rank(recs, i) ==
  1 + Cardinality({j \in 1..Len(recs) :
                     \/ recs[j].preference < recs[i].preference
                     \/ recs[j].preference = recs[i].preference /\ j < i})

\* An exchange name as the lookup gives it, less its trailing root dot.
WithoutRootDot(name) ==
  IF name # <<>> /\ name[Len(name)] = "." THEN SubSeq(name, 1, Len(name) - 1) ELSE name

\* C24: after a successful lookup the resolver returns one host per record,
\* the record's exchange name less its trailing dot, in ascending order of
\* preference with ties in the order of the lookup, and nothing else.
C24_SortedExchanges ==
  call.fn = "resolve" /\ call.done /\ call.answer.ok =>
    LET recs == call.answer.records
    IN /\ Len(call.out) = Len(recs)
       /\ \A i \in 1..Len(recs) :
            call.out[Rank(recs, i)] = WithoutRootDot(recs[i].exchange)

\* C24 witness: a lookup answered preferences 10, 5, 10 and the resolver
\* returned the second record first and the other two in lookup order.
C24_Witness ==
  /\ call.fn = "resolve" /\ call.done /\ call.answer.ok
  /\ [i \in 1..Len(call.answer.records) |-> call.answer.records[i].preference] = <<10, 5, 10>>
  /\ call.out = << <<"m", "x", "2", ".", "y">>, <<"m", "x", "1", ".", "y">>,
                   <<"m", "x", "3", ".", "y">> >>

\* The fallback names, spelled out.
FallbackName(i, domain) ==
  CASE i = 1 -> <<"m", "a", "i", "l", ".">> \o domain
    [] i = 2 -> <<"m", "x", ".">> \o domain
    [] i = 3 -> <<"m", "x", "1", ".">> \o domain

\* C25: after a failed lookup the resolver returns exactly the names among
\* mail.<domain>, mx.<domain>, mx1.<domain> whose probe succeeds, in that
\* order, and the empty list when none does.
C25_WorkingFallbacks ==
  call.fn = "resolve" /\ call.done /\ ~call.answer.ok =>
    LET probes == call.answer.probes
    IN /\ Len(call.out) = Cardinality(probes)
       /\ \A i \in probes :
            call.out[Cardinality({j \in probes : j <= i})] = FallbackName(i, call.arg)

\* C25 witness: the lookup failed, mail. and mx1. resolve and mx. does not.
C25_Witness ==
  /\ call.fn = "resolve" /\ call.done /\ ~call.answer.ok
  /\ call.answer.probes = {1, 3} /\ call.arg = <<"y">>
  /\ call.out = << <<"m", "a", "i", "l", ".", "y">>, <<"m", "x", "1", ".", "y">> >>

\* The addresses a line holds in angle brackets: the places of a '<' and a
\* '>' with a text between them that is not empty and holds no bracket.
Enclosed(t) ==
  {p \in (1..Len(t)) \X (1..Len(t)) :
     /\ t[p[1]] = "<" /\ t[p[2]] = ">" /\ p[2] > p[1] + 1
     /\ \A k \in (p[1] + 1)..(p[2] - 1) : t[k] \notin {"<", ">"}}

\* C26: for every line that holds an address in angle brackets, the
\* extractor returns exactly the text between the brackets of such an
\* address: no bracket character and no other part of the line.
C26_BracketedAddress ==
  call.fn = "extract" /\ call.done /\ Enclosed(call.arg) # {} =>
    \E p \in Enclosed(call.arg) : call.out = SubSeq(call.arg, p[1] + 1, p[2] - 1)

\* The places of a line that hold no whitespace, and those among them where
\* a whitespace-delimited token begins.
NonBlank(t) == {i \in 1..Len(t) : t[i] \notin Whitespace}
TokenStarts(t) == {i \in NonBlank(t) : i = 1 \/ t[i - 1] \in Whitespace}

\* C27: for every line without angle brackets the extractor returns the
\* last whitespace-delimited token when the line has at least two tokens,
\* and the empty text when it has one token or none.
C27_LastToken ==
  LET t == call.arg
  IN call.fn = "extract" /\ call.done /\ (\A i \in 1..Len(t) : t[i] \notin {"<", ">"}) =>
       IF Cardinality(TokenStarts(t)) >= 2
       THEN call.out = SubSeq(t, Max(TokenStarts(t)), Max(NonBlank(t)))
       ELSE call.out = <<>>

\* C27 witness: a line of two tokens, separated by a tab and followed by a
\* blank, gave its second token.
C27_Witness ==
  /\ call.fn = "extract" /\ call.done
  /\ call.arg = <<"a", "\t", "b", " ">> /\ call.out = <<"b">>

\* C28: a MAIL FROM: command sets the sender to the extracted address,
\* answers 250 and leaves the recipient list as it was; a RCPT TO: command
\* appends one entry, the extracted address, answers 250 and leaves the
\* sender as it was; both whatever the envelope held before.  A recipient
\* list that was not empty becomes empty only by RSET or by the end of a
\* DATA cycle.
C28_EnvelopeCommands ==
  [][\A s \in Conns :
       LET a == ses[s]
           b == ses'[s]
       IN /\ (a.pc = "recv" /\ b # a /\ b.ev = "command" =>
                \A data \in {Strip(Decode(b.line))} \ {<<>>} :
                  \A cmd \in {Upper(data)} :
                    /\ (StartsWith(cmd, KwMail) =>
                          /\ b.mail_from = ExtractEmail(data)
                          /\ b.rcpt_to = a.rcpt_to
                          /\ (b.cause # "error" => b.resp = <<R250>>))
                    /\ (StartsWith(cmd, KwRcpt) =>
                          /\ b.rcpt_to = Append(a.rcpt_to, ExtractEmail(data))
                          /\ b.mail_from = a.mail_from
                          /\ (b.cause # "error" => b.resp = <<R250>>))
                    /\ (b.line = CmdMail => b.mail_from = <<"a", "@", "x">>)
                    /\ (b.line = CmdRcpt => b.rcpt_to[Len(b.rcpt_to)] = <<"b", "@", "y">>)
                    /\ (a.rcpt_to # <<>> /\ b.rcpt_to = <<>> =>
                          StartsWith(cmd, KwRset)))
          /\ (a.rcpt_to # <<>> /\ b.rcpt_to = <<>> =>
                \/ a.pc = "recv" /\ b.ev = "command"
                \/ a.pc = "store" /\ b.cycles = a.cycles + 1)]_vars

\* C28 witness: MAIL FROM: was accepted after two RCPT TO: and left both
\* recipients in the list.
C28_Witness ==
  \E s \in Conns :
    /\ ses[s].pc = "recv" /\ ses[s].ev = "command" /\ ses[s].line = CmdMail
    /\ ses[s].resp = <<R250>> /\ ses[s].mail_from = <<"a", "@", "x">>
    /\ ses[s].rcpt_to = << <<"b", "@", "y">>, <<"c">> >>

\* The line begins with none of the keywords of the protocol.
Unrecognized(cmd) ==
  \A kw \in {KwEhlo, KwHelo, KwMail, KwRcpt, KwData, KwQuit, KwRset} : ~StartsWith(cmd, kw)

\* C29: an EHLO or HELO command and a command that begins with no keyword
\* leave sender, recipient list, connections, emails_processed and the log
\* file as they were and start no relay and no body; the first is answered
\* with the 250 greeting, the second with 500, and the handler goes back to
\* waiting for the next command.
C29_NoEffectCommands ==
  [][\A s \in Conns :
       LET a == ses[s]
           b == ses'[s]
       IN a.pc = "recv" /\ b # a /\ b.ev = "command" =>
            \A data \in {Strip(Decode(b.line))} \ {<<>>} :
              \A cmd \in {Upper(data)} :
                \A greeting \in {StartsWith(cmd, KwEhlo) \/ StartsWith(cmd, KwHelo)} :
                  greeting \/ Unrecognized(cmd) =>
                    /\ Envelope(b) = Envelope(a)
                    /\ connections' = connections
                    /\ emails_processed' = emails_processed
                    /\ log' = log
                    /\ b.nrec = a.nrec /\ b.cycles = a.cycles
                    /\ b.dispatched = a.dispatched /\ b.attempted = a.attempted
                    /\ b.pc \in {"recv", "closed"}
                    /\ (b.cause # "error" =>
                          b.resp = <<IF greeting THEN R250Hello ELSE R500>>)
                    /\ (b.cause # "error" /\ running => b.pc = "recv")]_vars

\* C29 witness: EHLO arrived while the envelope held a sender and a
\* recipient; it was answered 250 and the envelope is still there.
C29_Witness ==
  \E s \in Conns :
    /\ ses[s].pc = "recv" /\ ses[s].ev = "command" /\ ses[s].line = CmdEhlo
    /\ ses[s].resp = <<R250Hello>>
    /\ ses[s].mail_from = <<"a", "@", "x">> /\ ses[s].rcpt_to = << <<"b", "@", "y">> >>

\* The handler of st is in _process_email: the body has been handed over.
InProcess(st) == st.pc \in {"resolve", "attempt", "log", "store"}

\* C30: the body handed to the relay dispatcher is the body as the peer
\* sent it, decoded, less its final terminator of five characters; nothing
\* else of it is dropped or altered.
C30_BodyHandedOver ==
  \A s \in Conns :
    InProcess(ses[s]) => ses[s].email_data = DropLast(Decode(ses[s].raw), 5)

\* The dispatch of st has attempted a candidate, and that attempt is over.
HasAttempted(st) ==
  st.attempted # <<>> /\ (st.pc = "attempt" \/ HasReturned(st))

\* C31: the outbound session a dispatch opened to a candidate is closed
\* when the dispatch goes on to the next candidate and when it returns,
\* whatever the attempt did.
C31_OutboundClosed ==
  \A s \in Conns : HasAttempted(ses[s]) => LeftOpen(ses[s].last) = 0

\* C32: within one dispatch, a candidate tried after one that accepted the
\* message does not accept it again: at most one candidate accepts.
C32_AcceptedOnce ==
  [][\A s \in Conns :
       LET a == ses[s]
           b == ses'[s]
       IN /\ a.pc = "attempt" /\ a.attempted # <<>> /\ Accepted(a.last) = 1
          /\ Len(b.attempted) = Len(a.attempted) + 1
          => Accepted(b.last) = 0]_vars

\* The text holds no '@'.
NoAt(t) == \A i \in 1..Len(t) : t[i] # "@"

\* C33: the dispatch of a recipient without '@' returns false without
\* calling the resolver and without attempting any host; the handler stays
\* in _process_email, which goes on to the next recipient of the envelope
\* if there is one, and no dispatch under way is for such a recipient.
C33_NoDomainFails ==
  \A s \in Conns :
    LET st == ses[s]
    IN /\ (HasReturned(st) /\ NoAt(Dispatched(st)) =>
             /\ st.ret = "false" /\ ~st.resolved
             /\ st.attempted = <<>> /\ st.mx_servers = <<>>
             /\ st.cause = "none"
             /\ (st.ri <= Len(st.rcpt_to) <=> st.pc = "resolve"))
       /\ (st.pc = "attempt" => ~NoAt(st.rcpt_to[st.ri]) /\ st.resolved)

\* C33 witness: the first recipient of an envelope had no '@', its dispatch
\* returned false, and the second recipient is being attempted.
C33_Witness ==
  \E s \in Conns :
    /\ ses[s].pc = "attempt" /\ ses[s].ri = 2
    /\ ses[s].rcpt_to = << <<"c">>, <<"b", "@", "y">> >>
    /\ ses[s].dispatched = ses[s].rcpt_to /\ ses[s].success_count = 0

\* The handler of st has built the outcome record of its current cycle.
RecordBuilt(st) == st.pc \in {"log", "store"}

\* C34: in every outcome record total_targets is the number of RCPT TO:
\* commands accepted since the envelope was last reset,
\* successful_deliveries is the number of dispatches of the cycle that
\* returned true and lies between 0 and total_targets, and success is true
\* exactly when successful_deliveries is positive.
C34_RecordCounts ==
  \A s \in Conns :
    LET st == ses[s]
    IN RecordBuilt(st) =>
         /\ st.rec.total_targets = st.nrcpt
         /\ st.rec.successful_deliveries = st.ntrue
         /\ 0 <= st.rec.successful_deliveries
         /\ st.rec.successful_deliveries <= st.rec.total_targets
         /\ st.rec.success <=> st.rec.successful_deliveries > 0

\* C34 witness: of two recipients one was delivered and one was not; the
\* record counts 2 targets and 1 delivery and says success.
C34_Witness ==
  \E s \in Conns :
    /\ RecordBuilt(ses[s])
    /\ ses[s].rec.total_targets = 2 /\ ses[s].rec.successful_deliveries = 1
    /\ ses[s].rec.success /\ ses[s].ret = "false"

\* The ways out of _handle_client.
ExitPaths == {"quit", "eof", "blank", "error", "shutdown"}

\* The handler of st has ended.
Terminated(st) == st.pc = "closed"

\* C35: a handler that has ended has closed its connection exactly once,
\* whichever way it left (QUIT, empty read, error in a command, error before
\* the loop, shutdown flag), no handler closes before it ends, and the first
\* step of a handler sends the greeting 220 (or fails and ends) before
\* anything is read.
C35_ClosedOnceGreetedFirst ==
  /\ [](\A s \in Conns :
         LET st == ses[s]
         IN /\ st.closes = (IF Terminated(st) THEN 1 ELSE 0)
            /\ Terminated(st) <=> st.cause \in ExitPaths
            /\ st.pc \in {"idle", "start"} =>
                  st.pos = 0 /\ st.line = <<>> /\ st.resp = <<>> /\ ~st.eof)
  /\ [][\A s \in Conns :
          LET a == ses[s]
              b == ses'[s]
          IN /\ Terminated(a) => b = a
             /\ a.pc = "start" /\ b # a =>
                  /\ b.ev = "greet" /\ b.pos = 0 /\ b.line = <<>>
                  /\ \/ b.resp = <<R220>> /\ b.pc = "recv"
                     \/ b.resp = <<R220>> /\ Terminated(b) /\ b.cause = "shutdown"
                     \/ b.resp = <<>> /\ Terminated(b) /\ b.cause = "error"
             /\ b.pos > a.pos => a.pc \in {"recv", "body"}]_vars

\* C35 witness: one handler ended on the empty read that followed a complete
\* cycle, the other ended because the greeting could not be sent; each closed
\* once.
C35_Witness ==
  \E s, t \in Conns :
    /\ Terminated(ses[s]) /\ ses[s].cause = "eof" /\ ses[s].closes = 1
    /\ ses[s].cycles = 1
    /\ Terminated(ses[t]) /\ ses[t].cause = "error" /\ ses[t].ev = "greet"
    /\ ses[t].closes = 1 /\ ses[t].pos = 0

\* C36: run_scenario with a scenario id outside 1..number-of-scenarios
\* returns false, makes no SMTP connection and appends no record, and the
\* test command exits with code 1; with an id inside the range it appends
\* exactly one record whose success field is the returned boolean.
C36_InvalidIdRejected ==
  call.fn = "scenario" /\ call.done =>
    LET a == call.arg
        o == call.out
    IN /\ (a.scenario_id \notin 1..a.count =>
             ~o.ret /\ o.smtp_calls = 0 /\ o.records = <<>> /\ o.exit = 1)
       /\ (a.scenario_id \in 1..a.count =>
             Len(o.records) = 1 /\ o.records[1].success = o.ret)
====
